---- MODULE Spec2Model ----
(***************************************************************************)
(* A model of the MP3 player application (the variant with favorites and   *)
(* playlists): the persisted catalog in AsyncStorage, the music files, the *)
(* React state of the App component, the expo-av sounds, and every async   *)
(* handler of the component as a task that runs from one await to the      *)
(* next on the values its closure captured when it was invoked.            *)
(***************************************************************************)
EXTENDS Integers, Sequences, FiniteSets, TLC

(***************************************************************************)
(* Bounds of the model.                                                    *)
(***************************************************************************)
MaxTasks == 2      \* handlers that may be suspended at an await at once
MaxClock == 4      \* last value Date.now() takes
MaxSongs == 3      \* longest song list an import may produce
MaxPlaylists == 2  \* longest playlist collection a create may produce
MaxHandles == 2    \* sounds Audio.Sound.createAsync may create in a run
MaxFaults == 1     \* failures the file system, the store and the engine inject
MaxOps == 2        \* handlers the user invokes in a run
TrackLen == 2      \* durationMillis of every track, in position steps

StartClock == 3    \* Date.now() when the application starts

(***************************************************************************)
(* Program constants.                                                      *)
(***************************************************************************)
MUSIC_DIRECTORY == "music/"
SONGS_KEY == "@saved_songs"
FAVORITES_KEY == "@favorites"
PLAYLISTS_KEY == "@playlists"

(***************************************************************************)
(* Sequence helpers: the Array methods the handlers use.                   *)
(***************************************************************************)
Range(s) == {s[i] : i \in DOMAIN s}

\* Array.prototype.includes
Includes(s, x) == \E i \in DOMAIN s : s[i] = x

RECURSIVE FilterNe(_, _)
\* ids.filter(id => id !== x)
FilterNe(s, x) ==
  IF s = <<>> THEN <<>>
  ELSE IF Head(s) = x THEN FilterNe(Tail(s), x)
       ELSE <<Head(s)>> \o FilterNe(Tail(s), x)

RECURSIVE FilterIdNe(_, _)
\* list.filter(e => e.id !== x), for songs and for playlists
FilterIdNe(s, x) ==
  IF s = <<>> THEN <<>>
  ELSE IF Head(s).id = x THEN FilterIdNe(Tail(s), x)
       ELSE <<Head(s)>> \o FilterIdNe(Tail(s), x)

\* The value React state holds for "no song" (null): its id equals no id.
NoSong == [id |-> "", name |-> "", uri |-> ""]

\* songs.find(s => s.id === songId): the first match, or NoSong for undefined
FindSong(s, x) ==
  IF \E i \in DOMAIN s : s[i].id = x
  THEN s[CHOOSE i \in DOMAIN s : s[i].id = x /\ \A j \in 1..(i - 1) : s[j].id # x]
  ELSE NoSong

(***************************************************************************)
(* AsyncStorage values. A key holds nothing (getItem gives null), a string *)
(* JSON.stringify wrote, or a string JSON.parse rejects.                   *)
(***************************************************************************)
Missing == [tag |-> "missing", val |-> <<>>]
Corrupt == [tag |-> "corrupt", val |-> <<>>]

\* JSON.stringify(value)
Stringify(v) == [tag |-> "json", val |-> v]

\* JSON.parse(text) succeeds
Parses(e) == e.tag = "json"

\* JSON.parse(text), where it succeeds
Parse(e) == e.val

(***************************************************************************)
(* The persisted stores a run may start from.                              *)
(***************************************************************************)
Song1 == [id |-> "1", name |-> "a.mp3", uri |-> MUSIC_DIRECTORY \o "a.mp3"]
Song2 == [id |-> "2", name |-> "b.mp3", uri |-> MUSIC_DIRECTORY \o "b.mp3"]
Playlist1 == [id |-> "p1", name |-> <<"M">>, songs |-> <<"1", "2">>]
\* a playlist without song "1", and one that holds an id twice (no handler writes such
\* a playlist; the store is read as it is found)
Playlist2 == [id |-> "p2", name |-> <<"R">>, songs |-> <<"2">>]
Playlist3 == [id |-> "p3", name |-> <<"D">>, songs |-> <<"1", "1">>]

\* what a key of the store may hold when the application starts
StoredSongs == {Missing, Corrupt, Stringify(<<Song1, Song2>>)}
StoredFavorites == {Missing, Corrupt, Stringify(<<"2">>)}
StoredPlaylists == {Missing, Corrupt, Stringify(<<Playlist1>>)}
\* the stores the first load is run against
LoadStores == [songs : StoredSongs, favorites : StoredFavorites, playlists : StoredPlaylists]
\* the music directories the first load is run against
LoadFiles == SUBSET {Song1.uri, Song2.uri}

\* the store a run of the application left behind
SavedStore == [songs |-> Stringify(<<Song1, Song2>>), favorites |-> Stringify(<<"2">>),
               playlists |-> Stringify(<<Playlist1>>)]
\* the stores the handlers are run against: that store, as it is, with favorites that
\* do not parse, and with other playlists
Stores == {SavedStore, [SavedStore EXCEPT !.favorites = Corrupt],
           [SavedStore EXCEPT !.playlists = Stringify(<<Playlist2, Playlist3>>)]}
\* the music directory: with the file of every saved song, or with one file gone
StoredFiles == {{Song1.uri, Song2.uri}, {Song1.uri}}

VARIABLES
  store,        \* AsyncStorage: key -> value
  files,        \* uris FileSystem.getInfoAsync reports as existing
  engine,       \* the sounds createAsync has created, by handle
  now,          \* Date.now()
  faults,       \* failures injected so far
  ops,          \* handlers invoked so far
  sound, songs, currentSong, isPlaying, position, duration,
  isLoading, favorites, playlists, songToAdd,   \* useState of App
  loadPc,       \* where loadSavedData is
  tasks,        \* the handlers suspended at an await
  poll,         \* the status a pending sound.getStatusAsync() of the interval holds
  last          \* what the latest step was, for the properties

vars == <<store, files, engine, now, faults, ops, sound, songs, currentSong, isPlaying,
          position, duration, isLoading, favorites, playlists, songToAdd, loadPc,
          tasks, poll, last>>

NoPoll == [isLoaded |-> FALSE, positionMillis |-> 0, durationMillis |-> 0, pending |-> FALSE]
NoStep == [op |-> "none"]
\* the record of a handler that returned after Alert.alert(title, ...), or without one
Alert(title, rec) == [alert |-> title] @@ rec
Silent(rec) == [alert |-> ""] @@ rec

\* the state of an application that has just been started on a store and a directory
Started(st, fs) ==
  /\ store = st
  /\ files = fs
  /\ engine = <<>>
  /\ now = StartClock
  /\ faults = 0
  /\ ops = 0
  /\ sound = 0
  /\ songs = <<>>
  /\ currentSong = NoSong
  /\ isPlaying = FALSE
  /\ position = 0
  /\ duration = 0
  /\ isLoading = TRUE
  /\ favorites = <<>>
  /\ playlists = <<>>
  /\ songToAdd = NoSong
  /\ loadPc = "songs"
  /\ tasks = <<>>
  /\ poll = NoPoll
  /\ last = Silent([op |-> "load", pc |-> "songs", store |-> st, files |-> fs, fails |-> {}])

Init == \E st \in Stores, fs \in StoredFiles : Started(st, fs)

LoadInit == \E st \in LoadStores, fs \in LoadFiles : Started(st, fs)

\* An injected failure is allowed: the outcome of an I/O step is ok or not.
Outcomes == IF faults < MaxFaults THEN {TRUE, FALSE} ELSE {TRUE}
Fault(ok) == faults' = IF ok THEN faults ELSE faults + 1

(***************************************************************************)
(* loadSavedData                                                           *)
(***************************************************************************)
\* a load that does not look at the files
ExistingSongsUnchecked(saved, fs) == saved

RECURSIVE ExistingSongs(_, _)
\* the loop that keeps the saved songs whose file exists
ExistingSongs(saved, fs) ==
  IF saved = <<>> THEN <<>>
  ELSE IF Head(saved).uri \in fs THEN <<Head(saved)>> \o ExistingSongs(Tail(saved), fs)
       ELSE ExistingSongs(Tail(saved), fs)

\* the finally of loadSavedData, reached from the end of the try block or from its catch
LoadAbort ==
  /\ loadPc' = "done"
  /\ isLoading' = FALSE

\* the record of the load so far: where it is, and the reads and writes that failed
Loading(pc, step, ok) ==
  last' = [last EXCEPT !.pc = pc, !.fails = IF ok THEN @ ELSE @ \cup {step}]

LoadSongs ==
  /\ loadPc = "songs"
  /\ \E readOk \in Outcomes :
       IF ~readOk
       THEN /\ Fault(FALSE) /\ LoadAbort
            /\ UNCHANGED <<store, songs>>
            /\ Loading("done", "read", FALSE)
       ELSE IF store.songs = Missing
       THEN /\ loadPc' = "favorites"
            /\ UNCHANGED <<store, songs, faults, isLoading>>
            /\ Loading("favorites", "read", TRUE)
       ELSE IF ~Parses(store.songs)
       THEN /\ LoadAbort
            /\ UNCHANGED <<store, songs, faults>>
            /\ Loading("done", "read", TRUE)
       ELSE LET savedSongs == Parse(store.songs)
                existingSongs == ExistingSongs(savedSongs, files)
            IN /\ songs' = existingSongs
               /\ IF Len(existingSongs) # Len(savedSongs)
                  THEN \E writeOk \in Outcomes :
                         /\ Fault(writeOk)
                         /\ IF writeOk
                            THEN /\ store' = [store EXCEPT !.songs = Stringify(existingSongs)]
                                 /\ loadPc' = "favorites"
                                 /\ UNCHANGED isLoading
                            ELSE /\ LoadAbort
                                 /\ UNCHANGED store
                         /\ Loading(IF writeOk THEN "favorites" ELSE "done", "write", writeOk)
                  ELSE /\ loadPc' = "favorites"
                       /\ UNCHANGED <<store, faults, isLoading>>
                       /\ Loading("favorites", "read", TRUE)
  /\ UNCHANGED <<files, engine, now, sound, currentSong, isPlaying, position, duration,
                 favorites, playlists, songToAdd, tasks, poll, ops>>

LoadFavorites ==
  /\ loadPc = "favorites"
  /\ \E readOk \in Outcomes :
       /\ Fault(readOk)
       /\ IF ~readOk \/ (store.favorites # Missing /\ ~Parses(store.favorites))
          THEN /\ LoadAbort
               /\ UNCHANGED favorites
               /\ Loading("done", "read", readOk)
          ELSE /\ favorites' = IF store.favorites = Missing THEN favorites
                               ELSE Parse(store.favorites)
               /\ loadPc' = "playlists"
               /\ UNCHANGED isLoading
               /\ Loading("playlists", "read", TRUE)
  /\ UNCHANGED <<store, files, engine, now, sound, songs, currentSong, isPlaying, position,
                 duration, playlists, songToAdd, tasks, poll, ops>>

LoadPlaylists ==
  /\ loadPc = "playlists"
  /\ \E readOk \in Outcomes :
       /\ Fault(readOk)
       /\ IF ~readOk \/ (store.playlists # Missing /\ ~Parses(store.playlists))
          THEN UNCHANGED playlists
          ELSE playlists' = IF store.playlists = Missing THEN playlists
                            ELSE Parse(store.playlists)
       /\ Loading("done", "read", readOk)
  /\ LoadAbort
  /\ UNCHANGED <<store, files, engine, now, sound, songs, currentSong, isPlaying, position,
                 duration, favorites, songToAdd, tasks, poll, ops>>

loadSavedData == LoadSongs \/ LoadFavorites \/ LoadPlaylists

(***************************************************************************)
(* The audio engine (expo-av): one record per sound createAsync returned.  *)
(***************************************************************************)
Handles == DOMAIN engine
Loaded(h) == h \in Handles /\ engine[h].loaded
\* the live engine handles: created and not yet unloaded
LiveHandles == {h \in Handles : engine[h].loaded}

\* an unloadAsync that releases nothing
UnloadNothing(eng, h) == eng

\* sound.unloadAsync(): releases the sound; on a released sound it does nothing
Unload(eng, h) ==
  IF h \in DOMAIN eng
  THEN [eng EXCEPT ![h] = [uri |-> eng[h].uri, loaded |-> FALSE, playing |-> FALSE, pos |-> 0]]
  ELSE eng

\* the status the engine reports for a sound
StatusOf(eng, h, finished) ==
  IF h \in DOMAIN eng /\ eng[h].loaded
  THEN [isLoaded |-> TRUE, positionMillis |-> eng[h].pos, durationMillis |-> TrackLen,
        isPlaying |-> eng[h].playing, didJustFinish |-> finished]
  ELSE [isLoaded |-> FALSE, positionMillis |-> 0, durationMillis |-> 0,
        isPlaying |-> FALSE, didJustFinish |-> FALSE]

\* useEffect([sound]) cleanup: when sound changes, the previous sound is unloaded
SoundCleanup(eng, old, new) ==
  IF old # 0 /\ old # new THEN Unload(eng, old) ELSE eng

\* a callback that leaves the position at the end of the track
OnPlaybackStatusUpdateNoRewind(status) ==
  IF status.isLoaded
  THEN <<status.positionMillis, status.durationMillis,
         IF status.didJustFinish THEN FALSE ELSE status.isPlaying>>
  ELSE <<position, duration, isPlaying>>

\* a callback that sets isPlaying at the end of the track only
OnPlaybackStatusUpdateAtEndOnly(status) ==
  IF status.isLoaded
  THEN <<IF status.didJustFinish THEN 0 ELSE status.positionMillis,
         status.durationMillis,
         IF status.didJustFinish THEN FALSE ELSE isPlaying>>
  ELSE <<position, duration, isPlaying>>

\* onPlaybackStatusUpdate(status): the values of <<position, duration, isPlaying>> after it
OnPlaybackStatusUpdate(status) ==
  IF status.isLoaded
  THEN <<IF status.didJustFinish THEN 0 ELSE status.positionMillis,
         status.durationMillis,
         IF status.didJustFinish THEN FALSE ELSE status.isPlaying>>
  ELSE <<position, duration, isPlaying>>

\* the engine delivers the status of a live sound to the callback createAsync was given
StatusCallback(h) ==
  /\ Loaded(h)
  /\ LET upd == OnPlaybackStatusUpdate(StatusOf(engine, h, FALSE))
     IN /\ position' = upd[1]
        /\ duration' = upd[2]
        /\ isPlaying' = upd[3]
  /\ last' = NoStep
  /\ UNCHANGED <<store, files, engine, now, faults, sound, songs, currentSong, isLoading,
                 favorites, playlists, songToAdd, loadPc, tasks, poll, ops>>

\* a playing sound moves on by one position step
Advance(h) ==
  /\ Loaded(h) /\ engine[h].playing /\ engine[h].pos + 1 < TrackLen
  /\ engine' = [engine EXCEPT ![h].pos = @ + 1]
  /\ last' = NoStep
  /\ UNCHANGED <<store, files, now, faults, sound, songs, currentSong, isPlaying, position,
                 duration, isLoading, favorites, playlists, songToAdd, loadPc, tasks, poll,
                 ops>>

\* a playing sound reaches its end: the callback gets didJustFinish
Finish(h) ==
  /\ Loaded(h) /\ engine[h].playing /\ engine[h].pos + 1 >= TrackLen
  /\ engine' = [engine EXCEPT ![h].pos = TrackLen, ![h].playing = FALSE]
  /\ LET upd == OnPlaybackStatusUpdate(StatusOf(engine', h, TRUE))
     IN /\ position' = upd[1]
        /\ duration' = upd[2]
        /\ isPlaying' = upd[3]
  /\ last' = [op |-> "finish", h |-> h]
  /\ UNCHANGED <<store, files, now, faults, sound, songs, currentSong, isLoading,
                 favorites, playlists, songToAdd, loadPc, tasks, poll, ops>>

\* the interval of useEffect([isPlaying, sound]) fires: sound.getStatusAsync() is called
\* (on a released sound the answer is isLoaded false and the callback sets nothing)
PollTick ==
  /\ isPlaying /\ sound # 0
  /\ ~poll.pending
  /\ Loaded(sound)
  /\ poll' = [isLoaded |-> TRUE, positionMillis |-> engine[sound].pos,
              durationMillis |-> TrackLen, pending |-> TRUE]
  /\ last' = NoStep
  /\ UNCHANGED <<store, files, engine, now, faults, sound, songs, currentSong, isPlaying,
                 position, duration, isLoading, favorites, playlists, songToAdd, loadPc,
                 tasks, ops>>

\* the pending getStatusAsync() resolves and the interval callback goes on
PollDeliver ==
  /\ poll.pending
  /\ position' = IF poll.isLoaded THEN poll.positionMillis ELSE position
  /\ duration' = IF poll.isLoaded THEN poll.durationMillis ELSE duration
  /\ poll' = NoPoll
  /\ last' = NoStep
  /\ UNCHANGED <<store, files, engine, now, faults, sound, songs, currentSong, isPlaying,
                 isLoading, favorites, playlists, songToAdd, loadPc, tasks, ops>>

(***************************************************************************)
(* Tasks: a handler invoked from the rendered UI takes a free slot and     *)
(* keeps the state values of the render it was invoked from.               *)
(***************************************************************************)
Slots == DOMAIN tasks
Idle == tasks = <<>>
\* the handler is invoked and runs to its first await, where it is suspended as task
\* (alone: no other handler was suspended at any time while this one ran; store: the
\* store at the call; both are kept for the properties)
Suspend(task) ==
  /\ Len(tasks) < MaxTasks
  /\ tasks' = Append([i \in DOMAIN tasks |-> [tasks[i] EXCEPT !.alone = FALSE]],
                     [alone |-> tasks = <<>>, store |-> store] @@ task)
\* the task at slot t goes on to its next await
Resume(t, task) == tasks' = [tasks EXCEPT ![t] = task]
\* the task at slot t returns
Return(t) == tasks' = [i \in 1..(Len(tasks) - 1) |-> IF i < t THEN tasks[i] ELSE tasks[i + 1]]
\* the task at slot t is the handler op, suspended at pc
At(t, op, pc) == t \in Slots /\ tasks[t].op = op /\ tasks[t].pc = pc
\* the UI handlers are used once the first load has finished
Ready == loadPc = "done"
\* no Modal covers the screen: the add-to-playlist Modal is up while songToAdd is set,
\* the create-playlist Modal until createPlaylist has saved
NoModal ==
  /\ songToAdd = NoSong
  /\ \A t \in Slots : tasks[t].op # "createPlaylist"
\* a handler is invoked from the rendered UI
Invoke == Ready /\ ops < MaxOps /\ ops' = ops + 1
\* Date.now(): the clock has not gone back since it was last read
Clock(time) == time \in now..(IF now < MaxClock THEN now + 1 ELSE now) /\ now' = time

\* setSound(s); setCurrentSong(c); setIsPlaying(p) with the cleanup of the sound effect
SetSession(s, c, p) ==
  /\ sound' = s
  /\ currentSong' = c
  /\ isPlaying' = p
  /\ engine' = SoundCleanup(engine, sound, s)

(***************************************************************************)
(* playSong(song)                                                          *)
(***************************************************************************)
PlaySongStart(song) ==
  /\ Invoke /\ NoModal
  /\ Includes(songs, song)
  /\ Len(engine) + Cardinality({u \in Slots : At(u, "playSong", "create")}) < MaxHandles
  /\ engine' = IF sound # 0 THEN Unload(engine, sound) ELSE engine
  /\ Suspend([op |-> "playSong", pc |-> "create", song |-> song, sound |-> sound,
              newSound |-> 0])
  /\ last' = NoStep
  /\ UNCHANGED <<store, files, now, faults, sound, songs, currentSong, isPlaying, position,
                 duration, isLoading, favorites, playlists, songToAdd, loadPc, poll>>

\* Audio.Sound.createAsync settles: a new sound that plays, or an error that is caught
PlaySongCreate(t) ==
  /\ At(t, "playSong", "create")
  /\ LET exists == tasks[t].song.uri \in files
     IN \E ok \in (IF exists THEN Outcomes ELSE {FALSE}) :
          /\ Fault(ok \/ ~exists)
          /\ IF ok
             THEN /\ engine' = Append(engine, [uri |-> tasks[t].song.uri, loaded |-> TRUE,
                                               playing |-> TRUE, pos |-> 0])
                  /\ Resume(t, [tasks[t] EXCEPT !.pc = "set", !.newSound = Len(engine) + 1])
                  /\ last' = NoStep
             ELSE /\ Return(t)
                  /\ last' = Alert("Error", [tasks[t] EXCEPT !.pc = "failed"])
                  /\ UNCHANGED engine
  /\ UNCHANGED <<store, files, now, sound, songs, currentSong, isPlaying, position,
                 duration, isLoading, favorites, playlists, songToAdd, loadPc, poll, ops>>

PlaySongSet(t) ==
  /\ At(t, "playSong", "set")
  /\ SetSession(tasks[t].newSound, tasks[t].song, TRUE)
  /\ Return(t)
  /\ last' = Silent([tasks[t] EXCEPT !.pc = "done"])
  /\ UNCHANGED <<store, files, now, faults, songs, position, duration, isLoading,
                 favorites, playlists, songToAdd, loadPc, poll, ops>>

(***************************************************************************)
(* togglePlayPause and seekTo: one engine command, nothing after the await *)
(***************************************************************************)
TogglePlayPause ==
  /\ Invoke /\ NoModal /\ currentSong # NoSong
  /\ sound # 0
  /\ Loaded(sound)
  /\ engine' = [engine EXCEPT ![sound].playing = ~isPlaying]
  /\ last' = [op |-> "togglePlayPause", sound |-> sound, isPlaying |-> isPlaying]
  /\ UNCHANGED <<store, files, now, faults, sound, songs, currentSong, isPlaying, position,
                 duration, isLoading, favorites, playlists, songToAdd, loadPc, tasks, poll>>

SeekTo(value) ==
  /\ Invoke /\ NoModal /\ currentSong # NoSong
  /\ sound # 0
  /\ Loaded(sound)
  /\ engine' = [engine EXCEPT ![sound].pos = value]
  /\ last' = [op |-> "seekTo", sound |-> sound, value |-> value]
  /\ UNCHANGED <<store, files, now, faults, sound, songs, currentSong, isPlaying, position,
                 duration, isLoading, favorites, playlists, songToAdd, loadPc, tasks, poll>>

\* togglePlayPause called with no sound held: if (!sound) return
TogglePlayPauseIdle ==
  /\ Invoke /\ NoModal
  /\ sound = 0
  /\ last' = [op |-> "togglePlayPause", sound |-> sound, isPlaying |-> isPlaying]
  /\ UNCHANGED <<store, files, engine, now, faults, sound, songs, currentSong, isPlaying,
                 position, duration, isLoading, favorites, playlists, songToAdd, loadPc,
                 tasks, poll>>

\* seekTo(value) called with no sound held: the if (sound) is not entered
SeekToIdle(value) ==
  /\ Invoke /\ NoModal
  /\ sound = 0
  /\ last' = [op |-> "seekTo", sound |-> sound, value |-> value]
  /\ UNCHANGED <<store, files, engine, now, faults, sound, songs, currentSong, isPlaying,
                 position, duration, isLoading, favorites, playlists, songToAdd, loadPc,
                 tasks, poll>>

(***************************************************************************)
(* stopSound, from the stop button and from deleteSong                     *)
(***************************************************************************)
\* sound.stopAsync() on a loaded sound
StopEngine(eng, h) == [eng EXCEPT ![h].playing = FALSE, ![h].pos = 0]

\* a stopSound that ends with setIsPlaying(false) only
ResetSessionPlayingOnly ==
  /\ SetSession(sound, currentSong, FALSE)
  /\ UNCHANGED <<position, duration>>

\* the five setters that end stopSound, with the cleanup of the sound effect
ResetSession ==
  /\ SetSession(0, NoSong, FALSE)
  /\ position' = 0
  /\ duration' = 0

StopSoundStart ==
  /\ Invoke /\ NoModal /\ currentSong # NoSong
  /\ sound # 0
  /\ Loaded(sound)
  /\ engine' = StopEngine(engine, sound)
  /\ Suspend([op |-> "stopSound", pc |-> "unload", sound |-> sound,
              isPlaying |-> isPlaying])
  /\ last' = NoStep
  /\ UNCHANGED <<store, files, now, faults, sound, songs, currentSong, isPlaying, position,
                 duration, isLoading, favorites, playlists, songToAdd, loadPc, poll>>

StopSoundUnload(t) ==
  /\ At(t, "stopSound", "unload")
  /\ engine' = Unload(engine, tasks[t].sound)
  /\ Resume(t, [tasks[t] EXCEPT !.pc = "reset"])
  /\ last' = NoStep
  /\ UNCHANGED <<store, files, now, faults, sound, songs, currentSong, isPlaying, position,
                 duration, isLoading, favorites, playlists, songToAdd, loadPc, poll, ops>>

StopSoundReset(t) ==
  /\ At(t, "stopSound", "reset")
  /\ ResetSession
  /\ Return(t)
  /\ last' = Silent([tasks[t] EXCEPT !.pc = "done"])
  /\ UNCHANGED <<store, files, now, faults, songs, isLoading, favorites, playlists,
                 songToAdd, loadPc, poll, ops>>

(***************************************************************************)
(* AsyncStorage.setItem inside the three save functions                    *)
(***************************************************************************)
\* saveSongsToStorage(songsList): the store afterwards; an error is caught and logged
SaveSongsToStorage(songsList, ok) ==
  store' = IF ok THEN [store EXCEPT !.songs = Stringify(songsList)] ELSE store

\* a saveFavorites that calls setFavorites before it writes
SaveFavoritesEager(favList, ok) ==
  /\ store' = IF ok THEN [store EXCEPT !.favorites = Stringify(favList)] ELSE store
  /\ favorites' = favList

\* saveFavorites(favList): setFavorites runs only after setItem has succeeded
SaveFavorites(favList, ok) ==
  /\ store' = IF ok THEN [store EXCEPT !.favorites = Stringify(favList)] ELSE store
  /\ favorites' = IF ok THEN favList ELSE favorites

\* savePlaylists(playlistList): setPlaylists runs only after setItem has succeeded
SavePlaylists(playlistList, ok) ==
  /\ store' = IF ok THEN [store EXCEPT !.playlists = Stringify(playlistList)] ELSE store
  /\ playlists' = IF ok THEN playlistList ELSE playlists

\* the steps of a task that failed, added to its record
Failed(task, step, ok) == IF ok THEN task.fails ELSE task.fails \cup {step}

(***************************************************************************)
(* deleteSong(songId)                                                      *)
(***************************************************************************)
\* a deleteSong that leaves the playlists as they are
WithoutSongUnpruned(pls, songId) == pls

\* playlists.map(p => ({...p, songs: p.songs.filter(id => id !== songId)}))
WithoutSong(pls, songId) ==
  [i \in DOMAIN pls |-> [pls[i] EXCEPT !.songs = FilterNe(pls[i].songs, songId)]]

\* a deleteSong that takes every song for the current one
IsCurrentAlways(current, songId) == TRUE

\* currentSong?.id === songId
IsCurrent(current, songId) == current.id = songId

DeleteSongStart(songId) ==
  /\ Invoke /\ NoModal
  /\ \E i \in DOMAIN songs : songs[i].id = songId
  /\ LET task == [op |-> "deleteSong", pc |-> "file", songId |-> songId, songs |-> songs,
                  favorites |-> favorites, playlists |-> playlists,
                  currentSong |-> currentSong, sound |-> sound, fails |-> {}]
     IN IF IsCurrent(currentSong, songId) /\ sound # 0
        THEN IF Loaded(sound)
             THEN /\ engine' = StopEngine(engine, sound)
                  /\ Suspend([task EXCEPT !.pc = "stopUnload"])
                  /\ last' = NoStep
             ELSE \* stopAsync throws on a released sound: the catch of deleteSong
                  /\ Len(tasks) < MaxTasks
                  /\ last' = Alert("Error", [alone |-> tasks = <<>>, store |-> store] @@
                                      [task EXCEPT !.pc = "failed", !.fails = {"stop"}])
                  /\ UNCHANGED <<engine, tasks>>
        ELSE /\ Suspend(task)
             /\ last' = NoStep
             /\ UNCHANGED engine
  /\ UNCHANGED <<store, files, now, faults, sound, songs, currentSong, isPlaying, position,
                 duration, isLoading, favorites, playlists, songToAdd, loadPc, poll>>

DeleteSongStopUnload(t) ==
  /\ At(t, "deleteSong", "stopUnload")
  /\ engine' = Unload(engine, tasks[t].sound)
  /\ Resume(t, [tasks[t] EXCEPT !.pc = "stopReset"])
  /\ last' = NoStep
  /\ UNCHANGED <<store, files, now, faults, sound, songs, currentSong, isPlaying, position,
                 duration, isLoading, favorites, playlists, songToAdd, loadPc, poll, ops>>

DeleteSongStopReset(t) ==
  /\ At(t, "deleteSong", "stopReset")
  /\ ResetSession
  /\ Resume(t, [tasks[t] EXCEPT !.pc = "file"])
  /\ last' = NoStep
  /\ UNCHANGED <<store, files, now, faults, songs, isLoading, favorites, playlists,
                 songToAdd, loadPc, poll, ops>>

\* getInfoAsync and deleteAsync of the file, then setSongs(updatedSongs)
DeleteSongFile(t) ==
  /\ At(t, "deleteSong", "file")
  /\ LET songToDelete == FindSong(tasks[t].songs, tasks[t].songId)
         present == songToDelete # NoSong /\ songToDelete.uri # "" /\ songToDelete.uri \in files
     IN \E ok \in (IF present THEN Outcomes ELSE {TRUE}) :
          /\ Fault(ok)
          /\ IF ok
             THEN /\ files' = IF present THEN files \ {songToDelete.uri} ELSE files
                  /\ songs' = FilterIdNe(tasks[t].songs, tasks[t].songId)
                  /\ Resume(t, [tasks[t] EXCEPT !.pc = "saveSongs"])
                  /\ last' = NoStep
             ELSE /\ Return(t)
                  /\ last' = Alert("Error", [tasks[t] EXCEPT !.pc = "failed",
                                                            !.fails = @ \cup {"file"}])
                  /\ UNCHANGED <<files, songs>>
  /\ UNCHANGED <<store, engine, now, sound, currentSong, isPlaying, position, duration,
                 isLoading, favorites, playlists, songToAdd, loadPc, poll, ops>>

DeleteSongSaveSongs(t) ==
  /\ At(t, "deleteSong", "saveSongs")
  /\ \E ok \in Outcomes :
       /\ Fault(ok)
       /\ SaveSongsToStorage(FilterIdNe(tasks[t].songs, tasks[t].songId), ok)
       /\ LET updatedFavorites == FilterNe(tasks[t].favorites, tasks[t].songId)
          IN Resume(t, [tasks[t] EXCEPT
                          !.pc = IF Len(updatedFavorites) # Len(tasks[t].favorites)
                                 THEN "saveFavorites" ELSE "savePlaylists",
                          !.fails = Failed(tasks[t], "songs", ok)])
  /\ last' = NoStep
  /\ UNCHANGED <<files, engine, now, sound, songs, currentSong, isPlaying, position,
                 duration, isLoading, favorites, playlists, songToAdd, loadPc, poll, ops>>

DeleteSongSaveFavorites(t) ==
  /\ At(t, "deleteSong", "saveFavorites")
  /\ \E ok \in Outcomes :
       /\ Fault(ok)
       /\ SaveFavorites(FilterNe(tasks[t].favorites, tasks[t].songId), ok)
       /\ Resume(t, [tasks[t] EXCEPT !.pc = "savePlaylists",
                                     !.fails = Failed(tasks[t], "favorites", ok)])
  /\ last' = NoStep
  /\ UNCHANGED <<files, engine, now, sound, songs, currentSong, isPlaying, position,
                 duration, isLoading, playlists, songToAdd, loadPc, poll, ops>>

DeleteSongSavePlaylists(t) ==
  /\ At(t, "deleteSong", "savePlaylists")
  /\ \E ok \in Outcomes :
       /\ Fault(ok)
       /\ SavePlaylists(WithoutSong(tasks[t].playlists, tasks[t].songId), ok)
       /\ last' = Silent([tasks[t] EXCEPT !.pc = "done",
                                          !.fails = Failed(tasks[t], "playlists", ok)])
  /\ Return(t)
  /\ UNCHANGED <<files, engine, now, sound, songs, currentSong, isPlaying, position,
                 duration, isLoading, favorites, songToAdd, loadPc, poll, ops>>

(***************************************************************************)
(* pickSong                                                                *)
(***************************************************************************)
\* what DocumentPicker.getDocumentAsync gives: an asset with a name or without one
PickerNames == {"a.mp3", ""}

\* file.name || `song_${Date.now()}.mp3`
FileNameOf(name, time) == IF name # "" THEN name ELSE "song_" \o ToString(time) \o ".mp3"

\* the picker was cancelled or gave no asset: nothing is done
PickSongCanceled ==
  /\ Invoke /\ NoModal
  /\ last' = Silent([op |-> "pickSong", pc |-> "canceled", songs |-> songs,
                     store |-> store, files |-> files, alone |-> tasks = <<>>,
                     fails |-> {}])
  /\ UNCHANGED <<store, files, engine, now, faults, sound, songs, currentSong, isPlaying,
                 position, duration, isLoading, favorites, playlists, songToAdd, loadPc,
                 tasks, poll>>

PickSongStart(name) ==
  /\ Invoke /\ NoModal
  /\ Len(songs) < MaxSongs
  /\ \E time \in now..MaxClock :
       /\ IF name # "" THEN time = now /\ UNCHANGED now ELSE Clock(time)
       /\ Suspend([op |-> "pickSong", pc |-> "copy", songs |-> songs,
                   fileName |-> FileNameOf(name, time), updatedSongs |-> <<>>,
                   fails |-> {}, files |-> files])
  /\ last' = NoStep
  /\ UNCHANGED <<store, files, engine, faults, sound, songs, currentSong, isPlaying,
                 position, duration, isLoading, favorites, playlists, songToAdd, loadPc,
                 poll>>

\* a pickSong that appends the new song before it knows that the copy succeeded
PickSongCopyEager(t) ==
  /\ At(t, "pickSong", "copy")
  /\ \E ok \in Outcomes, time \in now..MaxClock :
       LET permanentUri == MUSIC_DIRECTORY \o tasks[t].fileName
           newSong == [id |-> ToString(time), name |-> tasks[t].fileName,
                       uri |-> permanentUri]
           updatedSongs == Append(tasks[t].songs, newSong)
       IN /\ Fault(ok)
          /\ Clock(time)
          /\ songs' = updatedSongs
          /\ IF ok
             THEN /\ files' = files \cup {permanentUri}
                  /\ Resume(t, [tasks[t] EXCEPT !.pc = "save",
                                                !.updatedSongs = updatedSongs])
                  /\ last' = NoStep
             ELSE /\ Return(t)
                  /\ last' = Alert("Error", [tasks[t] EXCEPT !.pc = "failed",
                                                            !.fails = {"copy"}])
                  /\ UNCHANGED files
  /\ UNCHANGED <<store, engine, sound, currentSong, isPlaying, position, duration,
                 isLoading, favorites, playlists, songToAdd, loadPc, poll, ops>>

\* FileSystem.copyAsync settles, then the new song is appended to the captured list
PickSongCopy(t) ==
  /\ At(t, "pickSong", "copy")
  /\ \E ok \in Outcomes, time \in now..MaxClock :
       /\ Fault(ok)
       /\ IF ok
          THEN LET permanentUri == MUSIC_DIRECTORY \o tasks[t].fileName
                   newSong == [id |-> ToString(time), name |-> tasks[t].fileName,
                               uri |-> permanentUri]
                   updatedSongs == Append(tasks[t].songs, newSong)
               IN /\ Clock(time)
                  /\ files' = files \cup {permanentUri}
                  /\ songs' = updatedSongs
                  /\ Resume(t, [tasks[t] EXCEPT !.pc = "save",
                                                !.updatedSongs = updatedSongs])
                  /\ last' = NoStep
          ELSE /\ time = now
               /\ Return(t)
               /\ last' = Alert("Error", [tasks[t] EXCEPT !.pc = "failed",
                                                         !.fails = {"copy"}])
               /\ UNCHANGED <<files, songs, now>>
  /\ UNCHANGED <<store, engine, sound, currentSong, isPlaying, position, duration,
                 isLoading, favorites, playlists, songToAdd, loadPc, poll, ops>>

PickSongSave(t) ==
  /\ At(t, "pickSong", "save")
  /\ \E ok \in Outcomes :
       /\ Fault(ok)
       /\ SaveSongsToStorage(tasks[t].updatedSongs, ok)
       /\ last' = Alert("Success", [tasks[t] EXCEPT !.pc = "done",
                                                   !.fails = Failed(tasks[t], "songs", ok)])
  /\ Return(t)
  /\ UNCHANGED <<files, engine, now, sound, songs, currentSong, isPlaying, position,
                 duration, isLoading, favorites, playlists, songToAdd, loadPc, poll, ops>>

(***************************************************************************)
(* toggleFavorite(songId)                                                  *)
(***************************************************************************)
\* a toggleFavorite that appends the id whether or not it is a favorite
UpdatedFavoritesAppended(favs, songId) == Append(favs, songId)

\* updatedFavorites of toggleFavorite
UpdatedFavorites(favs, songId) ==
  LET isFavorite == Includes(favs, songId)
  IN IF isFavorite THEN FilterNe(favs, songId) ELSE Append(favs, songId)

ToggleFavoriteStart(songId) ==
  /\ Invoke /\ NoModal
  /\ \E i \in DOMAIN songs : songs[i].id = songId
  /\ Suspend([op |-> "toggleFavorite", pc |-> "save", songId |-> songId,
              favorites |-> favorites,
              updatedFavorites |-> UpdatedFavorites(favorites, songId), fails |-> {}])
  /\ last' = NoStep
  /\ UNCHANGED <<store, files, engine, now, faults, sound, songs, currentSong, isPlaying,
                 position, duration, isLoading, favorites, playlists, songToAdd, loadPc,
                 poll>>

ToggleFavoriteSave(t) ==
  /\ At(t, "toggleFavorite", "save")
  /\ \E ok \in Outcomes :
       /\ Fault(ok)
       /\ SaveFavorites(tasks[t].updatedFavorites, ok)
       /\ last' = Silent([tasks[t] EXCEPT !.pc = "done",
                                          !.fails = Failed(tasks[t], "favorites", ok)])
  /\ Return(t)
  /\ UNCHANGED <<files, engine, now, sound, songs, currentSong, isPlaying, position,
                 duration, isLoading, playlists, songToAdd, loadPc, poll, ops>>

(***************************************************************************)
(* createPlaylist, deletePlaylist, addToPlaylist                           *)
(***************************************************************************)
\* the texts typed into the playlist name input, as sequences of characters
NameInputs == {<<" ", " ">>, <<" ", "N", " ">>}

Whitespace == {" "}

RECURSIVE TrimStart(_)
TrimStart(s) ==
  IF s # <<>> /\ Head(s) \in Whitespace THEN TrimStart(Tail(s)) ELSE s

RECURSIVE TrimEnd(_)
TrimEnd(s) ==
  IF s # <<>> /\ s[Len(s)] \in Whitespace THEN TrimEnd(SubSeq(s, 1, Len(s) - 1)) ELSE s

\* a trim that removes nothing
TrimNothing(s) == s

\* String.prototype.trim
Trim(s) == TrimEnd(TrimStart(s))

CreatePlaylistStart(newPlaylistName) ==
  /\ Invoke /\ songToAdd = NoSong
  /\ IF Trim(newPlaylistName) = <<>>
     THEN /\ Len(tasks) < MaxTasks
          /\ last' = Alert("Error", [op |-> "createPlaylist", pc |-> "rejected",
                                      playlists |-> playlists,
                                      newPlaylistName |-> newPlaylistName,
                                      store |-> store, alone |-> tasks = <<>>,
                                      fails |-> {}])
          /\ UNCHANGED <<tasks, now>>
     ELSE /\ Len(playlists) < MaxPlaylists
          /\ \E time \in now..MaxClock :
               /\ Clock(time)
               /\ LET newPlaylist == [id |-> ToString(time), name |-> Trim(newPlaylistName),
                                      songs |-> <<>>]
                  IN Suspend([op |-> "createPlaylist", pc |-> "save",
                              playlists |-> playlists,
                              updatedPlaylists |-> Append(playlists, newPlaylist),
                              fails |-> {}, newPlaylistName |-> newPlaylistName])
          /\ last' = NoStep
  /\ UNCHANGED <<store, files, engine, faults, sound, songs, currentSong, isPlaying,
                 position, duration, isLoading, favorites, playlists, songToAdd, loadPc,
                 poll>>

CreatePlaylistSave(t) ==
  /\ At(t, "createPlaylist", "save")
  /\ \E ok \in Outcomes :
       /\ Fault(ok)
       /\ SavePlaylists(tasks[t].updatedPlaylists, ok)
       /\ last' = Silent([tasks[t] EXCEPT !.pc = "done",
                                          !.fails = Failed(tasks[t], "playlists", ok)])
  /\ Return(t)
  /\ UNCHANGED <<files, engine, now, sound, songs, currentSong, isPlaying, position,
                 duration, isLoading, favorites, songToAdd, loadPc, poll, ops>>

\* the Delete button of the confirmation alert of deletePlaylist(playlistId)
DeletePlaylistStart(playlistId) ==
  /\ Invoke /\ NoModal
  /\ \E i \in DOMAIN playlists : playlists[i].id = playlistId
  /\ Suspend([op |-> "deletePlaylist", pc |-> "save", playlistId |-> playlistId,
              playlists |-> playlists,
              updatedPlaylists |-> FilterIdNe(playlists, playlistId), fails |-> {}])
  /\ last' = NoStep
  /\ UNCHANGED <<store, files, engine, now, faults, sound, songs, currentSong, isPlaying,
                 position, duration, isLoading, favorites, playlists, songToAdd, loadPc,
                 poll>>

DeletePlaylistSave(t) ==
  /\ At(t, "deletePlaylist", "save")
  /\ \E ok \in Outcomes :
       /\ Fault(ok)
       /\ SavePlaylists(tasks[t].updatedPlaylists, ok)
       /\ last' = Silent([tasks[t] EXCEPT !.pc = "done",
                                          !.fails = Failed(tasks[t], "playlists", ok)])
  /\ Return(t)
  /\ UNCHANGED <<files, engine, now, sound, songs, currentSong, isPlaying, position,
                 duration, isLoading, favorites, songToAdd, loadPc, poll, ops>>

\* the add-to-playlist button of a song row: setSongToAdd(item)
SelectSongToAdd(song) ==
  /\ Ready /\ NoModal /\ ops < MaxOps
  /\ Includes(songs, song)
  /\ songToAdd' = song
  /\ last' = NoStep
  /\ UNCHANGED <<store, files, engine, now, faults, sound, songs, currentSong, isPlaying,
                 position, duration, isLoading, favorites, playlists, loadPc, tasks, poll,
                 ops>>

\* the Cancel button of the add-to-playlist Modal: setSongToAdd(null)
CancelAddToPlaylist ==
  /\ Ready
  /\ songToAdd # NoSong
  /\ songToAdd' = NoSong
  /\ last' = NoStep
  /\ UNCHANGED <<store, files, engine, now, faults, sound, songs, currentSong, isPlaying,
                 position, duration, isLoading, favorites, playlists, loadPc, tasks, poll,
                 ops>>

\* an addToPlaylist that appends the id twice where it is not included
WithSongTwice(pls, playlistId, songId) ==
  [i \in DOMAIN pls |->
     IF pls[i].id = playlistId /\ ~Includes(pls[i].songs, songId)
     THEN [pls[i] EXCEPT !.songs = Append(Append(@, songId), songId)]
     ELSE pls[i]]

\* an addToPlaylist that appends without looking whether the id is included
WithSongAppended(pls, playlistId, songId) ==
  [i \in DOMAIN pls |->
     IF pls[i].id = playlistId THEN [pls[i] EXCEPT !.songs = Append(@, songId)] ELSE pls[i]]

\* an addToPlaylist that puts the id first where it is not included
WithSongFirst(pls, playlistId, songId) ==
  [i \in DOMAIN pls |->
     IF pls[i].id = playlistId /\ ~Includes(pls[i].songs, songId)
     THEN [pls[i] EXCEPT !.songs = <<songId>> \o @]
     ELSE pls[i]]

\* playlists.map(...) of addToPlaylist: the song id is appended where it is not included
WithSong(pls, playlistId, songId) ==
  [i \in DOMAIN pls |->
     IF pls[i].id = playlistId /\ ~Includes(pls[i].songs, songId)
     THEN [pls[i] EXCEPT !.songs = Append(@, songId)]
     ELSE pls[i]]

AddToPlaylistStart(playlistId) ==
  /\ Invoke
  /\ songToAdd # NoSong
  /\ \E i \in DOMAIN playlists : playlists[i].id = playlistId
  /\ Suspend([op |-> "addToPlaylist", pc |-> "save", playlistId |-> playlistId,
              songToAdd |-> songToAdd, playlists |-> playlists,
              updatedPlaylists |-> WithSong(playlists, playlistId, songToAdd.id),
              fails |-> {}])
  /\ last' = NoStep
  /\ UNCHANGED <<store, files, engine, now, faults, sound, songs, currentSong, isPlaying,
                 position, duration, isLoading, favorites, playlists, songToAdd, loadPc,
                 poll>>

AddToPlaylistSave(t) ==
  /\ At(t, "addToPlaylist", "save")
  /\ \E ok \in Outcomes :
       /\ Fault(ok)
       /\ SavePlaylists(tasks[t].updatedPlaylists, ok)
       /\ last' = Silent([tasks[t] EXCEPT !.pc = "done",
                                          !.fails = Failed(tasks[t], "playlists", ok)])
  /\ songToAdd' = NoSong
  /\ Return(t)
  /\ UNCHANGED <<files, engine, now, sound, songs, currentSong, isPlaying, position,
                 duration, isLoading, favorites, loadPc, poll, ops>>

playSong ==
  \/ \E song \in Range(songs) : PlaySongStart(song)
  \/ \E t \in 1..MaxTasks : PlaySongCreate(t) \/ PlaySongSet(t)

stopSound ==
  \/ StopSoundStart
  \/ \E t \in 1..MaxTasks : StopSoundUnload(t) \/ StopSoundReset(t)

seekTo == \E value \in 0..duration : SeekTo(value) \/ SeekToIdle(value)

audioEngine == \E h \in Handles : StatusCallback(h) \/ Advance(h) \/ Finish(h)

statusPoll == PollTick \/ PollDeliver

deleteSong ==
  \/ \E song \in Range(songs) : DeleteSongStart(song.id)
  \/ \E t \in 1..MaxTasks :
       \/ DeleteSongStopUnload(t)
       \/ DeleteSongStopReset(t)
       \/ DeleteSongFile(t)
       \/ DeleteSongSaveSongs(t)
       \/ DeleteSongSaveFavorites(t)
       \/ DeleteSongSavePlaylists(t)

pickSong ==
  \/ PickSongCanceled
  \/ \E name \in PickerNames : PickSongStart(name)
  \/ \E t \in 1..MaxTasks : PickSongCopy(t) \/ PickSongSave(t)

toggleFavorite ==
  \/ \E song \in Range(songs) : ToggleFavoriteStart(song.id)
  \/ \E t \in 1..MaxTasks : ToggleFavoriteSave(t)

createPlaylist ==
  \/ \E name \in NameInputs : CreatePlaylistStart(name)
  \/ \E t \in 1..MaxTasks : CreatePlaylistSave(t)

deletePlaylist ==
  \/ \E p \in Range(playlists) : DeletePlaylistStart(p.id)
  \/ \E t \in 1..MaxTasks : DeletePlaylistSave(t)

addToPlaylist ==
  \/ \E song \in Range(songs) : SelectSongToAdd(song)
  \/ CancelAddToPlaylist
  \/ \E p \in Range(playlists) : AddToPlaylistStart(p.id)
  \/ \E t \in 1..MaxTasks : AddToPlaylistSave(t)

Next ==
  \/ loadSavedData
  \/ playSong
  \/ TogglePlayPause
  \/ TogglePlayPauseIdle
  \/ seekTo
  \/ stopSound
  \/ audioEngine
  \/ statusPoll
  \/ deleteSong
  \/ pickSong
  \/ toggleFavorite
  \/ createPlaylist
  \/ deletePlaylist
  \/ addToPlaylist

Spec == Init /\ [][Next]_vars

LoadSpec == LoadInit /\ [][loadSavedData]_vars

(***************************************************************************)
(* Properties                                                              *)
(***************************************************************************)
SongIds(ss) == {ss[i].id : i \in DOMAIN ss}
PlaylistSongIds(pls) == UNION {Range(pls[i].songs) : i \in DOMAIN pls}

\* the latest step was the return of the handler op
Returned(op) == last.op = op /\ last.pc \in {"done", "failed"}
\* the first load has just returned
Loaded0 == last.op = "load" /\ last.pc = "done"
\* no handler is running
Quiet == Ready /\ Idle

\* what a read of a key gives: v, where a key never written reads as the empty list
ReadsAs(e, v) == IF e = Missing THEN v = <<>> ELSE Parses(e) /\ Parse(e) = v
\* the value a key holds, where it holds one
Stored(e) == IF Parses(e) THEN Parse(e) ELSE <<>>

SessionEmpty ==
  sound = 0 /\ currentSong = NoSong /\ ~isPlaying /\ position = 0 /\ duration = 0

\* C1 (as claimed): whenever no operation is in progress, every id in favorites is the
\* id of a song of the song list.
C1_FavoritesAreSongs == Quiet => Range(favorites) \subseteq SongIds(songs)

\* C2 (as claimed): whenever no operation is in progress, every song id of every
\* playlist is the id of a song of the song list.
C2_PlaylistSongsAreSongs == Quiet => PlaylistSongIds(playlists) \subseteq SongIds(songs)

\* C3 (as claimed): at most one sound that createAsync created and that was not
\* unloaded exists at any time.
C3_OneLiveHandle == Cardinality(LiveHandles) <= 1

\* C4 (as claimed): a deleteSong of the current track that no other handler overlapped
\* returns with the session empty, whatever status was delivered meanwhile.
C4_DeleteCurrentEndsEmpty ==
  (Returned("deleteSong") /\ last.alone /\ last.currentSong.id = last.songId)
    => SessionEmpty

\* what deleteSong(id) is to make of the lists its call found
SongsWithout(rec) == SelectSeq(rec.songs, LAMBDA x : x.id # rec.songId)
FavoritesWithout(rec) == SelectSeq(rec.favorites, LAMBDA x : x # rec.songId)
PlaylistsWithout(rec) ==
  [i \in DOMAIN rec.playlists |->
     [id |-> rec.playlists[i].id, name |-> rec.playlists[i].name,
      songs |-> SelectSeq(rec.playlists[i].songs, LAMBDA x : x # rec.songId)]]

\* a deleteSong that no other handler overlapped has returned, and no step of it failed
DeletedCleanly == Returned("deleteSong") /\ last.alone /\ last.fails = {}

DeletedInMemory ==
  /\ songs = SongsWithout(last)
  /\ favorites = FavoritesWithout(last)
  /\ playlists = PlaylistsWithout(last)

\* C5 (as claimed): deleteSong(id) without a failure leaves the three lists without
\* the id, in order, and each of the three keys of the store holds its list.
C5_DeletePersistsAllThree ==
  DeletedCleanly =>
    /\ DeletedInMemory
    /\ ReadsAs(store.songs, songs)
    /\ ReadsAs(store.favorites, favorites)
    /\ ReadsAs(store.playlists, playlists)

\* C5 (amended): deleteSong(id) without a failure leaves the three lists without the
\* id, in order; the songs key and the playlists key hold their lists; the favorites
\* key holds favorites if the id was a favorite, and is left as it was if not.
C5_DeletePersistsWhatChanged ==
  DeletedCleanly =>
    /\ DeletedInMemory
    /\ ReadsAs(store.songs, songs)
    /\ ReadsAs(store.playlists, playlists)
    /\ IF Includes(last.favorites, last.songId)
       THEN ReadsAs(store.favorites, favorites)
       ELSE store.favorites = last.store.favorites

\* C5 witness: such a deleteSong of a song that was a favorite and in a playlist
C5_Witness ==
  /\ DeletedCleanly
  /\ Includes(last.favorites, last.songId)
  /\ last.songId \in PlaylistSongIds(last.playlists)
  /\ Len(songs) > 0

\* the id deleteSong was called with is in none of the three lists
Removed(id) ==
  /\ id \notin SongIds(songs)
  /\ id \notin Range(favorites)
  /\ id \notin PlaylistSongIds(playlists)

\* C6 (as claimed): a deleteSong whose file deletion failed still removes the song
\* from the song list, from favorites and from every playlist.
C6_FileFailureStillPrunes ==
  (Returned("deleteSong") /\ last.alone /\ "file" \in last.fails) => Removed(last.songId)

\* C7 (as claimed): after deleteSong returns, whatever step failed, the song is removed
\* from all three lists or none of the three lists has changed.
C7_DeleteAllOrNothing ==
  (Returned("deleteSong") /\ last.alone) =>
    \/ DeletedInMemory
    \/ /\ songs = last.songs
       /\ favorites = last.favorites
       /\ playlists = last.playlists

\* C8 (as claimed): after the first load, the playlists and favorites in memory refer
\* to loaded songs only, and so do the playlists and favorites the store holds.
C8_LoadPrunesDangling ==
  (Loaded0 /\ last.fails = {}) =>
    /\ Range(favorites) \subseteq SongIds(songs)
    /\ PlaylistSongIds(playlists) \subseteq SongIds(songs)
    /\ Range(Stored(store.favorites)) \subseteq SongIds(songs)
    /\ PlaylistSongIds(Stored(store.playlists)) \subseteq SongIds(songs)

\* the saved songs the load started from, and those of them whose file exists
SavedAtStart == Stored(last.store.songs)
KeptAtStart == SelectSeq(SavedAtStart, LAMBDA x : x.uri \in last.files)

\* C9: after a load whose reads and writes succeeded, the song list is the saved songs
\* whose file exists, in the saved order, and if a song was dropped the songs key
\* holds that list.
C9_LoadKeepsSongsWithFiles ==
  (Loaded0 /\ last.fails = {}) =>
    /\ songs = KeptAtStart
    /\ Len(KeptAtStart) < Len(SavedAtStart) => store.songs = Stringify(KeptAtStart)

\* C9 witness: a load that dropped one saved song and kept the other
C9_Witness ==
  /\ Loaded0 /\ last.fails = {}
  /\ Len(SavedAtStart) = 2 /\ Len(songs) = 1
  /\ store.songs # last.store.songs

\* C10 (as claimed): after the first load each list is what its own key held (the
\* empty list for a key that is missing or does not parse), whatever the other two
\* keys held.
C10_KeysLoadIndependently ==
  (Loaded0 /\ last.fails = {}) =>
    /\ songs = KeptAtStart
    /\ favorites = Stored(last.store.favorites)
    /\ playlists = Stored(last.store.playlists)
\* a pickSong that no other handler overlapped has returned without adding a song:
\* the picker was cancelled or gave no file, or the copy failed
PickFailed == last.op = "pickSong" /\ last.pc \in {"canceled", "failed"} /\ last.alone

\* C11: after a pickSong whose picker was cancelled or whose copy failed, the song
\* list, the stored song list and the music directory are what they were at the call,
\* so no song record was added without a file.
C11_PickFailureChangesNothing ==
  PickFailed =>
    /\ songs = last.songs
    /\ store.songs = last.store.songs
    /\ files = last.files
    /\ \A i \in DOMAIN songs : songs[i].uri \notin files => songs[i] \in Range(last.songs)

\* C11 witness: the copy of a picked file failed with songs in the list
C11_Witness == PickFailed /\ "copy" \in last.fails /\ Len(songs) > 0
\* the handlers that read and write the catalog
CatalogOps == {"pickSong", "deleteSong", "toggleFavorite", "createPlaylist",
               "deletePlaylist", "addToPlaylist"}

\* C12 (as claimed): at most one handler that changes the catalog is suspended at an
\* await at any time; a second one does not start (and read the catalog) before the
\* first has returned.
C12_CatalogOpsSerialized ==
  Cardinality({t \in Slots : tasks[t].op \in CatalogOps}) <= 1

\* a playSong that no other handler overlapped has returned after setting the session
Played == last.op = "playSong" /\ last.pc = "done" /\ last.alone

\* C13: a playSong(songB) called while the sound of an earlier playSong is held, with
\* no stopSound in between, returns with exactly one live sound, created for songB's
\* uri, and with currentSong = songB.
C13_PlayReplacesSound ==
  (Played /\ last.sound # 0) =>
    /\ LiveHandles = {sound}
    /\ sound = last.newSound
    /\ engine[sound].uri = last.song.uri
    /\ currentSong = last.song

\* C13 witness: such a playSong of another song than the one that was held
C13_Witness ==
  /\ Played /\ last.sound # 0
  /\ engine[last.sound].uri # last.song.uri
  /\ isPlaying

\* C14 (as claimed): a playSong whose createAsync failed returns with no sound held,
\* currentSong none and isPlaying false.
C14_PlayFailureEndsIdle ==
  (last.op = "playSong" /\ last.pc = "failed" /\ last.alone) =>
    sound = 0 /\ currentSong = NoSong /\ ~isPlaying

\* a stopSound that no other handler overlapped has returned
Stopped == last.op = "stopSound" /\ last.pc = "done" /\ last.alone

NoDuplicates(q) == \A i, j \in DOMAIN q : q[i] = q[j] => i = j
\* no playlist of the collection holds the same song id twice
NoDuplicateSongs(pls) == \A i \in DOMAIN pls : NoDuplicates(pls[i].songs)

\* C16 (as claimed): from any contents of the store, no playlist in memory ever holds
\* the same song id twice.
C16_NoDuplicateSongs == NoDuplicateSongs(playlists)

\* C16 (amended): from a store in which no playlist holds the same song id twice, no
\* playlist in memory or in the store ever holds the same song id twice.
C16_NoDuplicateSongsKept ==
  NoDuplicateSongs(Stored(store.playlists)) =>
    [](NoDuplicateSongs(playlists) /\ NoDuplicateSongs(Stored(store.playlists)))

\* an addToPlaylist that no other handler overlapped has returned after a successful save
Added == last.op = "addToPlaylist" /\ last.pc = "done" /\ last.alone /\ last.fails = {}
\* the playlist addToPlaylist was called for, in a collection
Target(pls) == pls[CHOOSE i \in DOMAIN pls : pls[i].id = last.playlistId]
\* how often the id is in the sequence
Count(q, x) == Cardinality({i \in DOMAIN q : q[i] = x})

\* C16 witness: from such a store addToPlaylist was called for a song the playlist held
C16_Witness ==
  /\ Added
  /\ NoDuplicateSongs(last.playlists)
  /\ Includes(Target(last.playlists).songs, last.songToAdd.id)
  /\ \A i \in DOMAIN playlists : playlists[i].id = "p1"

AllBlank(q) == \A i \in DOMAIN q : q[i] \in Whitespace
\* n is q without the white space at its two ends
IsTrimOf(n, q) ==
  /\ n # <<>> => n[1] \notin Whitespace /\ n[Len(n)] \notin Whitespace
  /\ \E i, j \in 0..Len(q) :
       /\ i + Len(n) + j = Len(q)
       /\ SubSeq(q, i + 1, i + Len(n)) = n
       /\ AllBlank(SubSeq(q, 1, i)) /\ AllBlank(SubSeq(q, Len(q) - j + 1, Len(q)))

\* a createPlaylist that no other handler overlapped has returned after a successful save
Created == last.op = "createPlaylist" /\ last.pc = "done" /\ last.alone /\ last.fails = {}

\* C18: createPlaylist with a name of white space only returns with the playlists in
\* memory and in the store unchanged; with another name it appends one playlist, with
\* the clock reading as id, the trimmed name and no songs, after the playlists it
\* found, and the store holds the result.
C18_CreatePlaylist ==
  /\ (last.op = "createPlaylist" /\ last.pc = "rejected") =>
       /\ AllBlank(last.newPlaylistName)
       /\ playlists = last.playlists
       /\ store.playlists = last.store.playlists
  /\ Created =>
       /\ ~AllBlank(last.newPlaylistName)
       /\ Len(playlists) = Len(last.playlists) + 1
       /\ SubSeq(playlists, 1, Len(last.playlists)) = last.playlists
       /\ playlists[Len(playlists)].id \in {ToString(k) : k \in StartClock..now}
       /\ IsTrimOf(playlists[Len(playlists)].name, last.newPlaylistName)
       /\ playlists[Len(playlists)].songs = <<>>
       /\ ReadsAs(store.playlists, playlists)

\* C18 witness: a playlist was created after an existing one, from a name with white
\* space around it
C18_Witness ==
  /\ Created
  /\ Len(last.playlists) = 1
  /\ last.newPlaylistName # playlists[Len(playlists)].name

\* the playlist collections savePlaylists is given
SavedPlaylists == {<<>>, <<Playlist1>>}

\* C19 (as claimed): the load of a store whose playlists key holds what savePlaylists(p)
\* wrote gives playlists = p.
C19_PlaylistsRoundTrip ==
  \A p \in SavedPlaylists :
    (Loaded0 /\ last.fails = {} /\ last.store.playlists = Stringify(p)) => playlists = p

\* a handler that no other handler overlapped has returned, and its write of key failed
WriteFailed(key) == last.op \in CatalogOps /\ last.pc = "done" /\ last.alone /\ key \in last.fails

ErrorRaised ==
  \/ last.op = "playSong" /\ last.pc = "failed"
  \/ /\ last.op \in CatalogOps \cup {"load"}
     /\ last.pc \in {"done", "failed"}
     /\ last.fails # {}

\* C21 (as claimed): a handler (or the load) in which a call failed ends with an error
\* shown to the user.
C21_ErrorsAreShown == ErrorRaised => last.alert = "Error"
\* C22: togglePlayPause with a loaded sound held pauses the engine if isPlaying and
\* resumes it if not, and leaves the held sound and currentSong as they are; the next
\* status the engine delivers for the held sound sets isPlaying to what the engine
\* does; togglePlayPause and seekTo with no sound held change nothing of the session
\* and nothing of the engine.
C22_PauseResume ==
  [][/\ (last'.op = "togglePlayPause" /\ last'.sound # 0) =>
          /\ engine'[sound].playing = ~isPlaying
          /\ sound' = sound /\ currentSong' = currentSong
          /\ LiveHandles' = LiveHandles
     /\ (sound # 0 /\ StatusCallback(sound)) =>
          /\ isPlaying' = engine[sound].playing
          /\ sound' = sound /\ currentSong' = currentSong
     /\ (last'.op \in {"togglePlayPause", "seekTo"} /\ last'.sound = 0) =>
          UNCHANGED <<sound, currentSong, isPlaying, position, duration, engine>>
    ]_vars

\* C22 witness: togglePlayPause has just paused the held sound, which was playing
C22_Witness ==
  /\ last.op = "togglePlayPause" /\ last.sound # 0 /\ last.isPlaying
  /\ sound = last.sound /\ Loaded(sound) /\ ~engine[sound].playing
  /\ currentSong # NoSong /\ isPlaying
\* C23: the step in which the status callback reports the end of the track leaves
\* isPlaying false and position 0, changes neither currentSong nor the held sound, and
\* leaves the finished sound loaded; if the finished sound is the held one, currentSong
\* is the song it was created for.
C23_FinishKeepsSession ==
  [][last'.op = "finish" =>
       /\ ~isPlaying' /\ position' = 0
       /\ currentSong' = currentSong /\ sound' = sound
       /\ engine'[last'.h].loaded
       /\ last'.h = sound => currentSong'.uri = engine'[sound'].uri
    ]_vars

\* C23 witness: the held sound has just played to its end
C23_Witness ==
  /\ last.op = "finish" /\ last.h = sound
  /\ currentSong # NoSong /\ Loaded(sound)
  /\ duration = TrackLen
\* C24 (as claimed): in every state no two songs of the song list have the same id and
\* no two playlists have the same id.
C24_IdsAreUnique ==
  /\ \A i, j \in DOMAIN songs : songs[i].id = songs[j].id => i = j
  /\ \A i, j \in DOMAIN playlists : playlists[i].id = playlists[j].id => i = j

RECURSIVE Embeds(_, _)
\* a is b with some elements left out: the elements of a are in b, in the order of a
Embeds(a, b) ==
  IF a = <<>> THEN TRUE
  ELSE IF b = <<>> THEN FALSE
       ELSE IF Head(a) = Head(b) THEN Embeds(Tail(a), Tail(b))
            ELSE Embeds(a, Tail(b))

\* every playlist of before is at its place in after, with the song ids it held in
\* their order
Grown(before, after) ==
  /\ Len(after) >= Len(before)
  /\ \A i \in DOMAIN before :
       /\ after[i].id = before[i].id
       /\ Embeds(before[i].songs, after[i].songs)

\* the playlists of after are playlists of before, as they were and in their order
Shrunk(before, after) == Embeds(after, before)

PlaylistOps == {"addToPlaylist", "createPlaylist", "deletePlaylist"}

\* C25: addToPlaylist, createPlaylist and deletePlaylist leave the playlists that
\* survive, and the song ids each of them held when the handler was called, in the
\* order they had (and leave the playlists as they are when the write fails); no step of
\* toggleFavorite or pickSong changes the playlists; addToPlaylist puts an id the
\* playlist did not hold after the ids it held.
C25_PlaylistOrderKept ==
  [][/\ (last'.op \in PlaylistOps /\ last'.pc = "done") =>
          IF last'.fails # {} THEN playlists' = playlists
          ELSE IF last'.op = "deletePlaylist" THEN Shrunk(last'.playlists, playlists')
               ELSE Grown(last'.playlists, playlists')
     /\ (toggleFavorite \/ pickSong) => playlists' = playlists
     /\ (last'.op = "addToPlaylist" /\ last'.pc = "done" /\ last'.fails = {}) =>
          \A i \in DOMAIN last'.playlists :
            (/\ last'.playlists[i].id = last'.playlistId
             /\ ~Includes(last'.playlists[i].songs, last'.songToAdd.id)) =>
                playlists'[i].songs = Append(last'.playlists[i].songs, last'.songToAdd.id)
    ]_vars

\* C25 witness: addToPlaylist has put a song after the one the playlist held, in a
\* collection of two playlists
C25_Witness ==
  /\ last.op = "addToPlaylist" /\ last.pc = "done" /\ last.fails = {}
  /\ Len(playlists) = 2
  /\ \E i \in DOMAIN playlists :
       /\ playlists[i].id = last.playlistId
       /\ last.playlists[i].songs # <<>>
       /\ playlists[i].songs = Append(last.playlists[i].songs, last.songToAdd.id)
       /\ ~Includes(last.playlists[i].songs, last.songToAdd.id)

\* the ids toggleFavorite is applied to: those of the stored songs and one of no song
ToggleIds == {Song1.id, Song2.id, "9"}

\* after differs from before in the membership of id and in nothing else
Flipped(before, after, id) ==
  /\ Includes(after, id) = ~Includes(before, id)
  /\ FilterNe(after, id) = FilterNe(before, id)
  /\ NoDuplicates(before) => NoDuplicates(after)

C27_SongsHaveFiles ==
  Quiet => \A i \in DOMAIN songs : songs[i].uri \in files

\* the step is one of a deleteSong(id)
DeletesSong(id) ==
  \E t \in Slots : tasks[t].op = "deleteSong" /\ tasks[t].songId = id
                    /\ (t \notin DOMAIN tasks' \/ tasks'[t] # tasks[t])
\* the step is one of a deletePlaylist(id)
DeletesPlaylist(id) ==
  \E t \in Slots : tasks[t].op = "deletePlaylist" /\ tasks[t].playlistId = id
                    /\ (t \notin DOMAIN tasks' \/ tasks'[t] # tasks[t])

\* C28 (as claimed): no step loses an update, also where handlers overlap: a song of
\* the song list stays in it until a deleteSong of its id removes it, a playlist stays
\* until a deletePlaylist of its id removes it, and a song id stays in a playlist that
\* stays until a deleteSong of that id removes it.
C28_NoLostUpdate ==
  [][/\ \A i \in DOMAIN songs : Includes(songs', songs[i]) \/ DeletesSong(songs[i].id)
     /\ \A i \in DOMAIN playlists :
          \/ DeletesPlaylist(playlists[i].id)
          \/ \E j \in DOMAIN playlists' :
               /\ playlists'[j].id = playlists[i].id
               /\ \A id \in Range(playlists[i].songs) :
                    Includes(playlists'[j].songs, id) \/ DeletesSong(id)
    ]_vars

\* C29 (as claimed): whenever no handler is running and no call has failed (so no write
\* to the store has), each of the three keys reads as the list in memory, a key never
\* written as the empty list.
C29_StoreEqualsMemory ==
  (Quiet /\ faults = 0) =>
     /\ ReadsAs(store.songs, songs)
     /\ ReadsAs(store.favorites, favorites)
     /\ ReadsAs(store.playlists, playlists)

\* C30 (as claimed): whenever no handler is running, no sound is held exactly when
\* currentSong is none, and then isPlaying is false and position and duration are 0,
\* also after a status callback or a poll that began before the stop.
C30_SessionCoherent ==
  Quiet =>
    /\ (sound = 0) = (currentSong = NoSong)
    /\ (sound = 0 /\ currentSong = NoSong) => (~isPlaying /\ position = 0 /\ duration = 0)

\* the step is one of a deleteSong whose call found another song, or none, current
DeleteOfOtherSong ==
  \/ \E song \in Range(songs) : DeleteSongStart(song.id) /\ currentSong.id # song.id
  \/ \E t \in Slots :
       /\ tasks[t].op = "deleteSong" /\ tasks[t].currentSong.id # tasks[t].songId
       /\ \/ DeleteSongStopUnload(t) \/ DeleteSongStopReset(t) \/ DeleteSongFile(t)
          \/ DeleteSongSaveSongs(t) \/ DeleteSongSaveFavorites(t)
          \/ DeleteSongSavePlaylists(t)

\* the ids the lists of deleteSong are computed for: those of the stored songs and one
\* of no song
DeleteIds == {Song1.id, Song2.id, "9"}

====
